---- MODULE Spec2Model ----
(***************************************************************************)
(* Dark-flight propagator: the MPI ensemble driver (DFN_DarkFlight.py and  *)
(* its lift variant DarkFlight_main.py), the per-particle propagation with *)
(* its terminal observer and surface backtrack, and the per-worker random  *)
(* wind stream.                                                            *)
(*                                                                         *)
(* Three specifications share the module:                                  *)
(*   Spec      the whole MPI run of either program, rank by rank;          *)
(*   SpecProp  one call of Propagate(state0, args) of either program;      *)
(*   SpecMC    PropagateMultiple on the blocks of two runs that differ     *)
(*             only in the worker count (self-composition).                *)
(***************************************************************************)
EXTENDS Integers, Sequences, FiniteSets, TLC

\* ------------------------------------------------------------------ bounds
MaxSize == 3        \* largest MPI world size explored
MaxN == 3           \* largest ensemble explored
MaxTraj == 2        \* longest single-particle trajectory the driver sees

\* ------------------------------------------------------- program constants
States0 == 12       \* np.shape(DATA0)[1]

Variants == {"main", "lift"}

\* columns of the gathered table: 20 in the main program, 21 with 'fraction'
States(v) == IF v = "main" THEN 20 ELSE 21

\* names the propagation arguments are assembled from
ArgNames(v) ==
    IF v = "main"
    THEN {"WindData", "h_ground", "windspd_err", "winddir_err", "mc"}
    ELSE {"WindData", "h_ground", "c_l"}

VARIABLES
    variant,    \* which program runs
    size,       \* comm.size
    argv,       \* the command line: what -e, -w and -v name
    pc,         \* rank -> position in __main__
    exitcode,   \* rank -> process exit status, "running" while it runs
    ns,         \* rank -> the names bound in the process (name -> value)
    nLoc,       \* rank -> the rank's own array n (<<>> while unbound)
    inbox,      \* rank -> configuration messages sent and not yet received
    Npart,      \* len(M) of the ensemble built on the root
    DATA0,      \* the root's flat [N,12] array
    data0,      \* rank -> flat receive buffer of the scatter
    sbuf,       \* rank -> block of the Scatterv in flight
    loopi,      \* rank -> loop index of PropagateMultiple
    DarkDict,   \* rank -> the samples returned by the propagation
    data,       \* rank -> flat [n,states] array handed to the gather
    gbuf,       \* rank -> block of the Gatherv in flight
    DATA,       \* the root's gathered flat array
    written     \* WriteToFile was called with DATA

runVars == <<variant, size, argv, pc, exitcode, ns, nLoc, inbox, Npart, DATA0, data0,
             sbuf, loopi, DarkDict, data, gbuf, DATA, written>>

\* one call of Propagate(state0, args)
VARIABLES
    pvariant,   \* which program's Propagate is called
    ph_ground,  \* args: the ground height, [auto |-> 'a' given, h |-> metres]
    psrtm,      \* the elevation data: latitude cell -> [ok, h]
    ppc,        \* position inside Propagate
    pX0,        \* state0: the initial state vector and relative time 0
    pstate,     \* the lists state and T_rel, one record per solout call
    prend0,     \* lift variant: r_end computed before the integration
    pstop,      \* why solver.integrate returned
    pfrac,      \* fraction, as numerator and denominator
    plog,       \* the ground heights looked up and the warnings printed, in order
    pfinal      \* the last column of X_all and T[-1] as returned

propVars == <<pvariant, ph_ground, psrtm, ppc, pX0, pstate, prend0, pstop, pfrac, pfinal, plog>>

\* PropagateMultiple on the blocks of two runs with the same inputs
VARIABLES
    mcN,        \* number of particles of both runs
    mcW,        \* run -> worker count
    mcArgs,     \* [mc |-> Monte-Carlo flag, wind |-> kind of WindData]
    mcSeed,     \* run -> rank -> state np.random was seeded with
    mcPos,      \* run -> rank -> values drawn from np.random so far
    mcI,        \* run -> rank -> loop index of PropagateMultiple
    mcPert      \* run -> particle -> the draws its wind was offset with

mcVars == <<mcN, mcW, mcArgs, mcSeed, mcPos, mcI, mcPert>>

\* the atmosphere queries of one process over the particles it propagates
VARIABLES
    avariant,   \* which program's EarthDynamics asks
    awind,      \* kind of WindData: "sounding", "grid", or "none" (empty Table)
    apc,        \* "run", or "raised" after an uncaught exception
    apart,      \* number of the particle being propagated, from 1
    afresh,     \* no query of the current particle has been made yet
    ahist,      \* df_functions.WRF_history
    aans        \* what the last query returned, <<>> before the first

atmVars == <<avariant, awind, apc, apart, afresh, ahist, aans>>

\* one call of InitialiseParams and one call of Initialise
VARIABLES
    fvariant,   \* which program's InitialiseParams is called
    frho,       \* InitialiseParams: rho, the bulk density in kg/m3
    fcd,        \* InitialiseParams: cd_hyp = cd_hypersonic(A)
    fc_ml,      \* InitialiseParams: c_ml returned, in 1e-9; -1 before the call
    fvelType,   \* Initialise: velType
    ftab,       \* Initialise: what TriData holds
    fout        \* Initialise: how the call ended, "" before it

iniVars == <<fvariant, frho, fcd, fc_ml, fvelType, ftab, fout>>

\* one call of a function of the programs on arguments of its own
VARIABLES
    cfn,        \* the function called
    cargs,      \* its arguments
    cdone,      \* the call has returned or raised
    cret        \* what it returned, or the exception it raised

callVars == <<cfn, cargs, cdone, cret>>

vars == <<runVars, propVars, mcVars, atmVars, iniVars, callVars>>

Ranks == 0 .. (size - 1)

\* ---------------------------------------------------------------- helpers
RECURSIVE SumTo(_, _)
\* n[0] + ... + n[i-1]
SumTo(n, i) == IF i = 0 THEN 0 ELSE SumTo(n, i - 1) + n[i - 1]

\* builtin sum(n) / np.sum(n)
Sum(n, W) == SumTo(n, W)

\* n = np.array([N//size]*size); n[:(N%size)] += 1
BlockSizes(N, W) == [i \in 0 .. (W - 1) |-> (N \div W) + (IF i < N % W THEN 1 ELSE 0)]

\* sendcounts = states*n
SendCounts(st, n, W) == [i \in 0 .. (W - 1) |-> st * n[i]]

\* the running sums counted in rows of States0 values, not in array elements
DisplacementsInRows(counts, W) == [i \in 0 .. (W - 1) |-> SumTo(counts, i) \div States0]

\* displacements = np.hstack((0, np.cumsum(sendcounts)[:-1]))
Displacements(counts, W) == [i \in 0 .. (W - 1) |-> SumTo(counts, i)]

\* the cell DATA0[k, c]: every input cell holds its own token
InCell(k, c) == k * States0 + c

\* DATA0 = np.zeros((N,12)) filled column by column, as a C-contiguous buffer
BuildDATA0(N) == [e \in 1 .. (N * States0) |-> InCell((e - 1) \div States0, (e - 1) % States0)]

\* cell [j, c] of a flat row-major buffer with st columns
Cell(flat, j, c, st) == flat[j * st + c + 1]

\* number of rows of a flat buffer
Rows(flat, st) == Len(flat) \div st

\* the count doubles of buf that start at element disp
Block(buf, disp, count) == SubSeq(buf, disp + 1, disp + count)

\* a cell of an output sample: column c of step `step` of the particle
\* whose state column starts with the token tok0
OutCell(tok0, step, c) == ((step + 1) * 100 + tok0) * 100 + c

\* columns of the gathered table taken from the scattered row, not from the
\* propagation: 14 is M0 = data0.T[7], 19 is W = data0.T[11]
PackRow(v, sample, m0, w) ==
    [c \in 1 .. States(v) |->
        IF c - 1 = 14 THEN m0
        ELSE IF c - 1 = 19 THEN w
        ELSE OutCell(sample.tok0, sample.step, c - 1)]

RECURSIVE PackRows(_, _, _, _, _)
\* data = np.zeros((n[rank],states)); data[:,14] = M0; data[:,19] = W; ...
\* M0 and W have one entry per scattered row and broadcast when there is one
PackRows(v, samples, flat0, bcast, j) ==
    IF j > Len(samples) THEN <<>>
    ELSE LET src == IF bcast THEN 0 ELSE j - 1
         IN  PackRow(v, samples[j], Cell(flat0, src, 7, States0),
                                    Cell(flat0, src, 11, States0))
             \o PackRows(v, samples, flat0, bcast, j + 1)

RECURSIVE Assemble(_, _, _, _)
\* Gatherv into DATA: counts[i] doubles of rank i land at displacements[i],
\* which are the running sums of the counts
Assemble(blocks, counts, W, i) ==
    IF i = W THEN <<>>
    ELSE Block(blocks[i], 0, counts[i]) \o Assemble(blocks, counts, W, i + 1)

\* -e: an existing .cfg file, an existing .ecsv file, or no such file
EventFiles == {"cfg", "ecsv", "missing"}

\* -w: an existing .csv sounding, an existing forecast file, or no such file
WindFiles == {"csv", "wrfout", "missing"}

\* -v: one of the choices, not given, or another word; the lift variant
\* defines no such argument
VelocityModels(v) == IF v = "main" THEN {"eks", "none", "bogus"} ELSE {"none"}

Bind(f, name, val) == (name :> val) @@ f

Crash(r) ==
    /\ pc' = [pc EXCEPT ![r] = "crashed"]
    /\ exitcode' = [exitcode EXCEPT ![r] = "1"]

Exit(r, code) ==
    /\ pc' = [pc EXCEPT ![r] = "exited"]
    /\ exitcode' = [exitcode EXCEPT ![r] = code]

Goto(r, l) ==
    /\ pc' = [pc EXCEPT ![r] = l]
    /\ UNCHANGED exitcode

\* the variables of a specification that is not running stay at these values
RunIdle ==
    /\ variant = "main"
    /\ size = 1
    /\ argv = <<>>
    /\ pc = [r \in {0} |-> "idle"]
    /\ exitcode = [r \in {0} |-> "running"]
    /\ ns = [r \in {0} |-> <<>>]
    /\ nLoc = [r \in {0} |-> <<>>]
    /\ inbox = [r \in {0} |-> <<>>]
    /\ Npart = 0
    /\ DATA0 = <<>>
    /\ data0 = [r \in {0} |-> <<>>]
    /\ sbuf = [r \in {0} |-> <<>>]
    /\ loopi = [r \in {0} |-> 0]
    /\ DarkDict = [r \in {0} |-> <<>>]
    /\ data = [r \in {0} |-> <<>>]
    /\ gbuf = [r \in {0} |-> <<>>]
    /\ DATA = <<>>
    /\ written = FALSE

PropIdle ==
    /\ pvariant = "main"
    /\ ph_ground = [auto |-> FALSE, h |-> 0]
    /\ psrtm = <<>>
    /\ ppc = "idle"
    /\ pX0 = <<>>
    /\ pstate = <<>>
    /\ prend0 = 0
    /\ pstop = "no"
    /\ pfrac = [num |-> 0, den |-> 0]
    /\ pfinal = <<>>
    /\ plog = <<>>

MCIdle ==
    /\ mcN = 0
    /\ mcW = <<>>
    /\ mcArgs = <<>>
    /\ mcSeed = <<>>
    /\ mcPos = <<>>
    /\ mcI = <<>>
    /\ mcPert = <<>>

\* ------------------------------------------------------------------- Init
AtmIdle ==
    /\ avariant = "main"
    /\ awind = "none"
    /\ apc = "idle"
    /\ apart = 0
    /\ afresh = FALSE
    /\ ahist = <<>>
    /\ aans = <<>>

IniIdle ==
    /\ fvariant = "main"
    /\ frho = 0
    /\ fcd = 0
    /\ fc_ml = -1
    /\ fvelType = ""
    /\ ftab = <<>>
    /\ fout = ""

CallIdle ==
    /\ cfn = ""
    /\ cargs = <<>>
    /\ cdone = FALSE
    /\ cret = <<>>

Init ==
    /\ variant \in Variants
    /\ size \in 1 .. MaxSize
    /\ argv \in [eventFile : EventFiles, windFile : WindFiles,
                  velocityModel : VelocityModels(variant)]
    /\ pc = [r \in Ranks |-> "start"]
    /\ exitcode = [r \in Ranks |-> "running"]
    /\ ns = [r \in Ranks |-> <<>>]
    /\ nLoc = [r \in Ranks |-> <<>>]
    /\ inbox = [r \in Ranks |-> <<>>]
    /\ Npart = 0
    /\ DATA0 = <<>>
    /\ data0 = [r \in Ranks |-> <<>>]
    /\ sbuf = [r \in Ranks |-> <<>>]
    /\ loopi = [r \in Ranks |-> 0]
    /\ DarkDict = [r \in Ranks |-> <<>>]
    /\ data = [r \in Ranks |-> <<>>]
    /\ gbuf = [r \in Ranks |-> <<>>]
    /\ DATA = <<>>
    /\ written = FALSE
    /\ PropIdle
    /\ MCIdle
    /\ AtmIdle
    /\ IniIdle
    /\ CallIdle

\* ---------------------------------------------------------- root: set-up
\* parse_args and the read-back of the parsed values into names.  argparse
\* ends the process with status 2 for a -v outside the choices.  The main
\* program reads args.sphericity, an attribute no add_argument defines.
RootParse ==
    /\ pc[0] = "start"
    /\ \E m \in 0 .. MaxN, h \in {"0.0", "50.0"}, cl \in {"0.0", "0.01"} :
        IF variant = "main"
        THEN /\ IF argv.velocityModel = "bogus" THEN Exit(0, "2") ELSE Crash(0)
             /\ UNCHANGED ns
        ELSE /\ ns' = [ns EXCEPT ![0] =
                        Bind(Bind(Bind(@, "h_ground", h), "mc", m), "c_l", cl)]
             /\ Goto(0, "event")
    /\ UNCHANGED <<propVars, mcVars, atmVars, iniVars, callVars, variant, size, argv, nLoc, inbox, Npart, DATA0, data0, sbuf, loopi,
                   DarkDict, data, gbuf, DATA, written>>

\* the event file.  Main program (a mass is given with -m): exit(1) for an
\* .ecsv without -v and for a file that is missing; lift variant:
\* InitialiseCFG, or exit() when the file is missing or is no .cfg, and
\* without Monte Carlo the mass is a float and len(M) raises.
RootLoadEvent ==
    /\ pc[0] = "event"
    /\ IF variant = "main"
       THEN IF (argv.eventFile = "ecsv" /\ argv.velocityModel = "none")
                \/ argv.eventFile = "missing"
            THEN /\ Exit(0, "1")
                 /\ UNCHANGED Npart
            ELSE /\ Npart' = IF ns[0]["mc"] = 0 THEN 1 ELSE ns[0]["mc"]
                 /\ Goto(0, "wind")
       ELSE IF argv.eventFile # "cfg"
            THEN /\ Exit(0, "0")
                 /\ UNCHANGED Npart
            ELSE IF ns[0]["mc"] = 0
            THEN /\ Crash(0)
                 /\ UNCHANGED Npart
            ELSE /\ Npart' = ns[0]["mc"]
                 /\ Goto(0, "wind")
    /\ UNCHANGED <<propVars, mcVars, atmVars, iniVars, callVars, variant, size, argv, ns, nLoc, inbox, DATA0, data0, sbuf, loopi,
                   DarkDict, data, gbuf, DATA, written>>

\* what the wind file is read into: a sounding table or a gridded forecast
WindDataOf(w) == IF w = "csv" THEN "sounding" ELSE "grid"

\* the wind file.  Without one the main program calls exit(1) and the lift
\* variant goes on with an empty Table.
RootLoadWind ==
    /\ pc[0] = "wind"
    /\ IF argv.windFile = "missing"
       THEN IF variant = "main"
            THEN /\ Exit(0, "1")
                 /\ UNCHANGED ns
            ELSE /\ ns' = [ns EXCEPT ![0] = Bind(@, "WindData", "nowind")]
                 /\ Goto(0, "partition")
       ELSE /\ ns' = [ns EXCEPT ![0] = Bind(@, "WindData", WindDataOf(argv.windFile))]
            /\ Goto(0, "partition")
    /\ UNCHANGED <<propVars, mcVars, atmVars, iniVars, callVars, variant, size, argv, nLoc, inbox, Npart, DATA0, data0, sbuf, loopi,
                   DarkDict, data, gbuf, DATA, written>>

\* N = len(M); n; DATA0; states0; data0 = np.zeros((n[rank], states0))
RootPartition ==
    /\ pc[0] = "partition"
    /\ nLoc' = [nLoc EXCEPT ![0] = BlockSizes(Npart, size)]
    /\ DATA0' = BuildDATA0(Npart)
    /\ ns' = [ns EXCEPT ![0] = Bind(@, "states0", States0)]
    /\ Goto(0, "send")
    /\ UNCHANGED <<propVars, mcVars, atmVars, iniVars, callVars, variant, size, argv, inbox, Npart, data0, sbuf, loopi, DarkDict,
                   data, gbuf, DATA, written>>

\* for i in range(1, size): comm.send([WindData, n, states0, h_ground], dest=i)
RootSendConfig ==
    /\ pc[0] = "send"
    /\ inbox' = [r \in Ranks |->
                    IF r = 0 THEN inbox[r]
                    ELSE Append(inbox[r],
                                [WindData |-> ns[0]["WindData"], n |-> nLoc[0],
                                 states0 |-> ns[0]["states0"],
                                 h_ground |-> ns[0]["h_ground"]])]
    /\ Goto(0, "check")
    /\ UNCHANGED <<propVars, mcVars, atmVars, iniVars, callVars, variant, size, argv, ns, nLoc, Npart, DATA0, data0, sbuf, loopi,
                   DarkDict, data, gbuf, DATA, written>>

\* -------------------------------------------------------- worker: set-up
\* [WindData, n, states0, h_ground] = comm.recv(source=0)
WorkerRecvConfig(r) ==
    /\ r # 0
    /\ pc[r] = "start"
    /\ inbox[r] # <<>>
    /\ LET msg == Head(inbox[r])
       IN  /\ ns' = [ns EXCEPT ![r] =
                        Bind(Bind(Bind(@, "WindData", msg.WindData),
                                  "states0", msg.states0), "h_ground", msg.h_ground)]
           /\ nLoc' = [nLoc EXCEPT ![r] = msg.n]
    /\ inbox' = [inbox EXCEPT ![r] = Tail(@)]
    /\ Goto(r, "check")
    /\ UNCHANGED <<propVars, mcVars, atmVars, iniVars, callVars, variant, size, argv, Npart, DATA0, data0, sbuf, loopi, DarkDict,
                   data, gbuf, DATA, written>>

\* if not n[rank]: exit()
CheckParticles(r) ==
    /\ pc[r] = "check"
    /\ IF nLoc[r][r] = 0 THEN Exit(r, "0") ELSE Goto(r, "scatter")
    /\ UNCHANGED <<propVars, mcVars, atmVars, iniVars, callVars, variant, size, argv, ns, nLoc, inbox, Npart, DATA0, data0, sbuf,
                   loopi, DarkDict, data, gbuf, DATA, written>>

\* ---------------------------------------------------------------- scatter
\* comm.Scatterv([DATA0, sendcounts, displacements, MPI.DOUBLE], data0, root=0)
\* on the root: every rank with a non-empty block is sent its block, the
\* root's own block is copied (the linear algorithm of the MPI libraries)
ScattervRoot ==
    /\ pc[0] = "scatter"
    /\ LET counts == SendCounts(ns[0]["states0"], nLoc[0], size)
           displs == Displacements(counts, size)
       IN  /\ sbuf' = [r \in Ranks |->
                        IF r # 0 /\ counts[r] > 0
                        THEN Block(DATA0, displs[r], counts[r])
                        ELSE sbuf[r]]
           /\ data0' = [data0 EXCEPT ![0] = Block(DATA0, displs[0], counts[0])]
    /\ Goto(0, "args")
    /\ UNCHANGED <<propVars, mcVars, atmVars, iniVars, callVars, variant, size, argv, ns, nLoc, inbox, Npart, DATA0, loopi, DarkDict,
                   data, gbuf, DATA, written>>

\* the same call on another rank: it receives its block into data0
ScattervWorker(r) ==
    /\ r # 0
    /\ pc[r] = "scatter"
    /\ sbuf[r] # <<>>
    /\ data0' = [data0 EXCEPT ![r] = sbuf[r]]
    /\ sbuf' = [sbuf EXCEPT ![r] = <<>>]
    /\ Goto(r, "args")
    /\ UNCHANGED <<propVars, mcVars, atmVars, iniVars, callVars, variant, size, argv, ns, nLoc, inbox, Npart, DATA0, loopi, DarkDict,
                   data, gbuf, DATA, written>>

\* ------------------------------------------------------------ propagation
\* args = [WindData, h_ground, c_l]  (main: [WindData, h_ground,
\* windspd_err, winddir_err, mc]); a name the rank never bound raises
AssembleArgs(r) ==
    /\ pc[r] = "args"
    /\ IF ArgNames(variant) \subseteq DOMAIN ns[r]
       THEN Goto(r, "propagate")
       ELSE Crash(r)
    /\ UNCHANGED <<propVars, mcVars, atmVars, iniVars, callVars, variant, size, argv, ns, nLoc, inbox, Npart, DATA0, data0, sbuf,
                   loopi, DarkDict, data, gbuf, DATA, written>>

\* the block sizes left as the partition made them for one particle
SingleCountsKept(L, W) == [i \in 0 .. (W - 1) |-> IF i = 0 THEN 1 ELSE 0]

\* n = np.array([len(DarkDict['time_jd'])] + [0]*(size-1))
SingleCounts(L, W) == [i \in 0 .. (W - 1) |-> IF i = 0 THEN L ELSE 0]

\* sum(n) == 1: DarkDict = Propagate(State, args), the whole trajectory;
\* an exception raised under solver.integrate leaves Propagate and the script
PropagateSingle(r) ==
    /\ pc[r] = "propagate"
    /\ Sum(nLoc[r], size) = 1
    /\ \/ \E L \in 1 .. MaxTraj :
            /\ DarkDict' = [DarkDict EXCEPT ![r] =
                    [j \in 1 .. L |-> [tok0 |-> Cell(data0[r], 0, 0, States0), step |-> j]]]
            /\ nLoc' = [nLoc EXCEPT ![r] = SingleCounts(L, size)]
            /\ Goto(r, "pack")
       \/ /\ Crash(r)
          /\ UNCHANGED <<DarkDict, nLoc>>
    /\ UNCHANGED <<propVars, mcVars, atmVars, iniVars, callVars, variant, size, argv, ns, inbox, Npart, DATA0, data0, sbuf, loopi,
                   data, gbuf, DATA, written>>

\* one pass of the loop of PropagateMultiple: the impact sample of
\* State0[:,i]; the loop has no try, so an exception raised under
\* Propagate leaves PropagateMultiple and the script
PropagateOne(r) ==
    /\ pc[r] = "propagate"
    /\ Sum(nLoc[r], size) # 1
    /\ loopi[r] < Rows(data0[r], States0)
    /\ \/ /\ DarkDict' = [DarkDict EXCEPT ![r] =
                Append(@, [tok0 |-> Cell(data0[r], loopi[r], 0, States0), step |-> 0])]
          /\ loopi' = [loopi EXCEPT ![r] = @ + 1]
          /\ UNCHANGED <<pc, exitcode>>
       \/ /\ Crash(r)
          /\ UNCHANGED <<DarkDict, loopi>>
    /\ UNCHANGED <<propVars, mcVars, atmVars, iniVars, callVars, variant, size, argv, ns, nLoc, inbox, Npart, DATA0,
                   data0, sbuf, data, gbuf, DATA, written>>

\* PropagateMultiple returns
PropagateReturn(r) ==
    /\ pc[r] = "propagate"
    /\ Sum(nLoc[r], size) # 1
    /\ loopi[r] = Rows(data0[r], States0)
    /\ Goto(r, "pack")
    /\ UNCHANGED <<propVars, mcVars, atmVars, iniVars, callVars, variant, size, argv, ns, nLoc, inbox, Npart, DATA0, data0, sbuf,
                   loopi, DarkDict, data, gbuf, DATA, written>>

\* data = np.zeros((n[rank], states)) filled from DarkDict, M0 and W
PackData(r) ==
    /\ pc[r] = "pack"
    /\ data' = [data EXCEPT ![r] =
            PackRows(variant, DarkDict[r], data0[r],
                     Rows(data0[r], States0) = 1, 1)]
    /\ Goto(r, "gather")
    /\ UNCHANGED <<propVars, mcVars, atmVars, iniVars, callVars, variant, size, argv, ns, nLoc, inbox, Npart, DATA0, data0, sbuf,
                   loopi, DarkDict, gbuf, DATA, written>>

\* ----------------------------------------------------------------- gather
\* comm.Gatherv(data, [DATA, sendcounts, displacements, MPI.DOUBLE], root=0)
\* on a rank other than the root: its block is sent, then the script ends
GathervWorker(r) ==
    /\ r # 0
    /\ pc[r] = "gather"
    /\ gbuf' = [gbuf EXCEPT ![r] = data[r]]
    /\ Exit(r, "0")
    /\ UNCHANGED <<propVars, mcVars, atmVars, iniVars, callVars, variant, size, argv, ns, nLoc, inbox, Npart, DATA0, data0, sbuf,
                   loopi, DarkDict, data, DATA, written>>

\* on the root: a block is received from every rank whose count is not zero
GathervRoot ==
    /\ pc[0] = "gather"
    /\ LET counts == SendCounts(States(variant), nLoc[0], size)
       IN  /\ \A r \in Ranks : (r # 0 /\ counts[r] > 0) => gbuf[r] # <<>>
           /\ DATA' = Assemble([r \in Ranks |-> IF r = 0 THEN data[0] ELSE gbuf[r]],
                               counts, size, 0)
           /\ gbuf' = [r \in Ranks |-> IF counts[r] > 0 THEN <<>> ELSE gbuf[r]]
    /\ Goto(0, "write")
    /\ UNCHANGED <<propVars, mcVars, atmVars, iniVars, callVars, variant, size, argv, ns, nLoc, inbox, Npart, DATA0, data0, sbuf,
                   loopi, DarkDict, data, written>>

\* the Gatherv call of rank r
Gatherv(r) == IF r = 0 THEN GathervRoot ELSE GathervWorker(r)

\* if rank == 0: WriteToFile(DATA, ...)
RootWrite ==
    /\ pc[0] = "write"
    /\ written' = TRUE
    /\ Exit(0, "0")
    /\ UNCHANGED <<propVars, mcVars, atmVars, iniVars, callVars, variant, size, argv, ns, nLoc, inbox, Npart, DATA0, data0, sbuf,
                   loopi, DarkDict, data, gbuf, DATA>>

Next ==
    \/ RootParse
    \/ RootLoadEvent
    \/ RootLoadWind
    \/ RootPartition
    \/ RootSendConfig
    \/ \E r \in Ranks : WorkerRecvConfig(r)
    \/ \E r \in Ranks : CheckParticles(r)
    \/ ScattervRoot
    \/ \E r \in Ranks : ScattervWorker(r)
    \/ \E r \in Ranks : AssembleArgs(r)
    \/ \E r \in Ranks : PropagateSingle(r)
    \/ \E r \in Ranks : PropagateOne(r)
    \/ \E r \in Ranks : PropagateReturn(r)
    \/ \E r \in Ranks : PackData(r)
    \/ \E r \in Ranks : Gatherv(r)
    \/ RootWrite

Spec == Init /\ [][Next]_vars

(***************************************************************************)
(* Propagate(state0, args).                                                *)
(*                                                                         *)
(* Lengths are in units in which every position the integrator visits has  *)
(* an integer magnitude: positions lie in one meridian plane, on the rays  *)
(* of two latitude cells, (5,0)k on the equator and (3,4)k at mid          *)
(* latitude.  The rotation between ECI and ECEF turns about the polar      *)
(* axis and changes neither the latitude nor the magnitude.  Mass is in    *)
(* grams, time in integrator ticks.  The accepted steps of dopri5 are      *)
(* drawn from the neighbouring shells; time grows with every step and      *)
(* mass never grows (dm_dt <= 0 in EarthDynamics).                         *)
(***************************************************************************)
MaxSteps == 2       \* bound: accepted steps before the solver gives up;
                    \* stands for nsteps (500 by default, 1000 in the variant)

DustMass == 1       \* 1e-3 kg, in grams

MaxMass == 2        \* bound: the largest initial mass, in grams

Lats == {0, 1}
Shells == 2 .. 6

\* the values X[7], X[8], X[9] a particle may start with: bulk density,
\* shape factor and mass-loss coefficient
Frames == {[rho |-> 35, A |-> 12, c_ml |-> 4], [rho |-> 27, A |-> 15, c_ml |-> 6]}

\* the position on shell k of latitude cell d
Pos(k, d) == IF d = 0 THEN <<5 * k, 0>> ELSE <<3 * k, 4 * k>>

\* numpy.linalg.norm of a position
Norm(p) == CHOOSE n \in 0 .. 100 : n * n = p[1] * p[1] + p[2] * p[2]

\* ECEF2LLH(ECI2ECEF_pos(Pos_ECI, t))[0]: the latitude cell of a position
LatOf(p) == IF p[2] = 0 THEN 0 ELSE 1

\* EarthRadius(lat): larger on the equator than at mid latitude
EarthRadius(lat) == IF lat = 0 THEN 20 ELSE 15

\* elevation_data.get_elevation(lat, lon) per latitude cell; ok = FALSE
\* stands for None (a void or a missing tile)
Void == [ok |-> FALSE, h |-> 0]
Elev(h) == [ok |-> TRUE, h |-> h]
SRTMMaps == {<<Void, Elev(5)>>, <<Elev(0), Elev(5)>>, <<Elev(5), Void>>}

\* h_gnd as both programs' Propagate derive it from h_ground at latitude lat:
\* the elevation when 'a' was given, 0.0 when the elevation is None
HGnd(lat) ==
    IF ph_ground.auto
    THEN (IF psrtm[lat + 1].ok THEN psrtm[lat + 1].h ELSE 0)
    ELSE ph_ground.h

\* no warning printed
WarningDropped(lat) == FALSE

\* print('WARNING elevation file issue, ...') / ('WARNING final ground
\* issue, ...'): printed when get_elevation returned None
Warning(lat) == ph_ground.auto /\ psrtm[lat + 1].ok = FALSE

\* what one pass through the h_gnd lines leaves behind: the lookup's
\* outcome, the height used and whether the warning was printed
GroundLine(where, X) ==
    [at |-> where,
     nodata |-> ph_ground.auto /\ psrtm[LatOf(X.pos) + 1].ok = FALSE,
     h_gnd |-> HGnd(LatOf(X.pos)),
     warned |-> Warning(LatOf(X.pos))]

\* the log after solout or the final lines ran for X; the lift variant has
\* no h_gnd lines
Logged(log, where, X) ==
    IF pvariant = "main" THEN Append(log, GroundLine(where, X)) ELSE log

\* r_end = R_sealevel + h_gnd at the latitude and longitude of X
REndAt(X) == EarthRadius(LatOf(X.pos)) + HGnd(LatOf(X.pos))

\* the return value of solout(t, X) of the main program
SoloutMain(X) ==
    IF Norm(X.pos) < REndAt(X) THEN -1
    ELSE IF X.m < DustMass THEN -1
    ELSE 0

\* the return value of solout(t, X) of the lift variant: r_end is the
\* value computed from the initial position before the integration
SoloutLift(X, rend0) ==
    IF Norm(X.pos) < rend0 THEN -1
    ELSE IF X.m < DustMass THEN -1
    ELSE IF X.m < 0 THEN -1
    ELSE 0

Solout(X, rend0) == IF pvariant = "main" THEN SoloutMain(X) ELSE SoloutLift(X, rend0)

\* the states an accepted step of the integrator may lead to from X; the
\* rates of X[7:10] are zero (X_dot = np.zeros(X.shape), entries 0..6 set)
StepsFrom(X) ==
    {[t |-> X.t + dt, pos |-> Pos(k, d), vel |-> X.vel + dt, m |-> m,
      rho |-> X.rho, A |-> X.A, c_ml |-> X.c_ml] :
        dt \in {1, 2},
        k \in {j \in Shells : j - Norm(X.pos) \div 5 \in {-1, 0, 1}},
        d \in Lats,
        m \in {X.m, X.m - 1} \cap (0 .. 10)}

PropInit ==
    /\ pvariant \in Variants
    /\ ph_ground \in IF pvariant = "main"
                     THEN {[auto |-> TRUE, h |-> 0], [auto |-> FALSE, h |-> 0]}
                     ELSE {[auto |-> FALSE, h |-> 0], [auto |-> FALSE, h |-> 5]}
    /\ psrtm \in IF ph_ground.auto THEN SRTMMaps ELSE {<<Elev(0), Elev(0)>>}
    /\ ppc = "call"
    /\ pX0 \in {[t |-> 0, pos |-> Pos(k, d), vel |-> 1, m |-> m,
                  rho |-> fr.rho, A |-> fr.A, c_ml |-> fr.c_ml] :
                    k \in {4, 5}, d \in Lats, m \in DustMass .. MaxMass, fr \in Frames}
    /\ pstate = <<>>
    /\ prend0 = 0
    /\ pstop = "no"
    /\ pfrac = [num |-> 0, den |-> 0]
    /\ pfinal = <<>>
    /\ plog = <<>>

\* Propagate up to solver.integrate: the variant computes r_end from the
\* initial position; the solver then calls solout with the initial state
SolverFirst ==
    /\ ppc = "call"
    /\ LET r0 == IF pvariant = "lift"
                 THEN EarthRadius(LatOf(pX0.pos)) + ph_ground.h
                 ELSE 0
       IN  /\ prend0' = r0
           /\ pstate' = <<pX0>>
           /\ plog' = Logged(plog, "solout", pX0)
           /\ IF Solout(pX0, r0) = -1
              THEN ppc' = "stopped" /\ pstop' = "solout"
              ELSE ppc' = "integrating" /\ pstop' = pstop
    /\ UNCHANGED <<pvariant, ph_ground, psrtm, pX0, pfrac, pfinal>>
    /\ UNCHANGED <<runVars, mcVars, atmVars, iniVars, callVars>>

\* an accepted step: solout records it and decides
SolverStep ==
    /\ ppc = "integrating"
    /\ Len(pstate) <= MaxSteps
    /\ \E X \in StepsFrom(pstate[Len(pstate)]) :
        /\ pstate' = Append(pstate, X)
        /\ plog' = Logged(plog, "solout", X)
        /\ IF Solout(X, prend0) = -1
           THEN ppc' = "stopped" /\ pstop' = "solout"
           ELSE ppc' = "integrating" /\ pstop' = pstop
    /\ UNCHANGED <<pvariant, ph_ground, psrtm, pX0, prend0, pfrac, pfinal>>
    /\ UNCHANGED <<runVars, mcVars, atmVars, iniVars, callVars>>

\* the solver has taken nsteps steps: integrate returns without an event
SolverStepLimit ==
    /\ ppc = "integrating"
    /\ Len(pstate) = MaxSteps + 1
    /\ ppc' = "stopped"
    /\ pstop' = "nsteps"
    /\ UNCHANGED <<pvariant, ph_ground, psrtm, pX0, pstate, prend0, pfrac, pfinal, plog>>
    /\ UNCHANGED <<runVars, mcVars, atmVars, iniVars, callVars>>

\* a rational number, the denominator made positive
Rat(n, d) == IF d < 0 THEN [n |-> -n, d |-> -d] ELSE [n |-> n, d |-> d]

\* prev + fraction * (last - prev), fraction = f.n / f.d with f.d > 0
Lerp(prev, last, f) == [n |-> prev * f.d + f.n * (last - prev), d |-> f.d]

\* fraction = (norm(prev) - r_end) / (norm(prev) - norm(last)); norm of the
\* empty slice X_all[:3,-2:-1] of a one-sample trajectory is 0
Fraction(st) ==
    LET last == st[Len(st)]
        nprev == IF Len(st) > 1 THEN Norm(st[Len(st) - 1].pos) ELSE 0
    IN  [num |-> nprev - REndAt(last), den |-> nprev - Norm(last.pos)]

\* X_all[:,-1:] and T[-1] after the backtrack; a zero denominator gives
\* inf or nan in every component (finite = FALSE)
Backtracked(st, fr) ==
    LET last == st[Len(st)]
        exact == [finite |-> TRUE, t |-> Rat(last.t, 1), x |-> Rat(last.pos[1], 1),
                  y |-> Rat(last.pos[2], 1), vel |-> Rat(last.vel, 1),
                  m |-> Rat(last.m, 1), rho |-> Rat(last.rho, 1),
                  A |-> Rat(last.A, 1), c_ml |-> Rat(last.c_ml, 1)]
    IN  IF Len(st) > 1
        THEN LET prev == st[Len(st) - 1]
                 f == Rat(fr.num, fr.den)
             IN  IF fr.den = 0
                 THEN [exact EXCEPT !.finite = FALSE]
                 ELSE [finite |-> TRUE,
                       t |-> Lerp(prev.t, last.t, f),
                       x |-> Lerp(prev.pos[1], last.pos[1], f),
                       y |-> Lerp(prev.pos[2], last.pos[2], f),
                       vel |-> Lerp(prev.vel, last.vel, f),
                       m |-> Lerp(prev.m, last.m, f),
                       rho |-> Lerp(prev.rho, last.rho, f),
                       A |-> Lerp(prev.A, last.A, f),
                       c_ml |-> Lerp(prev.c_ml, last.c_ml, f)]
        ELSE exact

\* the rest of Propagate: the backtrack of the last sample, and the return
Backtrack ==
    /\ ppc = "stopped"
    /\ pfrac' = Fraction(pstate)
    /\ pfinal' = Backtracked(pstate, Fraction(pstate))
    /\ plog' = Logged(plog, "final", pstate[Len(pstate)])
    /\ ppc' = "returned"
    /\ UNCHANGED <<pvariant, ph_ground, psrtm, pX0, pstate, prend0, pstop>>
    /\ UNCHANGED <<runVars, mcVars, atmVars, iniVars, callVars>>

InitProp == RunIdle /\ PropInit /\ MCIdle /\ AtmIdle /\ IniIdle /\ CallIdle

NextProp ==
    \/ SolverFirst
    \/ SolverStep
    \/ SolverStepLimit
    \/ Backtrack

SpecProp == InitProp /\ [][NextProp]_vars

(***************************************************************************)
(* PropagateMultiple and the random wind of Propagate (main program).      *)
(*                                                                         *)
(* np.random is the generator of the process: a stream fixed by the state  *)
(* it was seeded with, of which every call takes the next values.  Two     *)
(* runs of the same ensemble are followed side by side; they differ in     *)
(* the worker count alone.  Neither program seeds the generator, so the    *)
(* processes start from one common state (seeded = TRUE, the premise of a  *)
(* fixed seed) or from states of their own.                                *)
(***************************************************************************)
WindLayers == 2     \* bound: len(WindData['Wind']), or the cells of the grid

Runs == {1, 2}

\* values Propagate draws: uniform(size = len) for 'Wind' and for 'WDir',
\* or for the two horizontal components of the grid; none without mc
DrawCount(args) == IF args.mc THEN 2 * WindLayers ELSE 0

\* the first particle of rank r's block: displacements[r] / states0
FirstOf(N, W, r) == Displacements(SendCounts(States0, BlockSizes(N, W), W), W)[r] \div States0

MCInit ==
    /\ mcN \in 1 .. MaxN
    /\ mcW \in [Runs -> 1 .. MaxSize]
    /\ mcArgs \in [mc : BOOLEAN, wind : {"sounding", "grid"}]
    /\ \E seeded \in BOOLEAN :
        mcSeed = [u \in Runs |-> [r \in 0 .. (mcW[u] - 1) |->
                    IF seeded THEN 1 ELSE 10 * u + r]]
    /\ mcPos = [u \in Runs |-> [r \in 0 .. (mcW[u] - 1) |-> 0]]
    /\ mcI = [u \in Runs |-> [r \in 0 .. (mcW[u] - 1) |-> 0]]
    /\ mcPert = [u \in Runs |-> [k \in 0 .. (mcN - 1) |-> [done |-> FALSE, seed |-> 0, from |-> 0, count |-> 0]]]

\* the draws of one call of Propagate on a process whose generator was
\* seeded with `seed` and has given `pos` values so far
WindDraws(args, seed, pos) ==
    [done |-> TRUE, seed |-> IF args.mc THEN seed ELSE 0,
     from |-> IF args.mc THEN pos ELSE 0, count |-> DrawCount(args)]

\* one pass of the loop of PropagateMultiple on rank r of run u:
\* Propagate(State0[:,i:i+1], args) offsets a copy of the wind
MCPropagate(u, r) ==
    /\ r \in 0 .. (mcW[u] - 1)
    /\ mcI[u][r] < BlockSizes(mcN, mcW[u])[r]
    /\ LET k == FirstOf(mcN, mcW[u], r) + mcI[u][r]
       IN  mcPert' = [mcPert EXCEPT ![u][k] = WindDraws(mcArgs, mcSeed[u][r], mcPos[u][r])]
    /\ mcPos' = [mcPos EXCEPT ![u][r] = @ + DrawCount(mcArgs)]
    /\ mcI' = [mcI EXCEPT ![u][r] = @ + 1]
    /\ UNCHANGED <<mcN, mcW, mcArgs, mcSeed>>
    /\ UNCHANGED <<runVars, propVars, atmVars, iniVars, callVars>>

InitMC == RunIdle /\ PropIdle /\ MCInit /\ AtmIdle /\ IniIdle /\ CallIdle

NextMC == \E u \in Runs, r \in 0 .. (MaxSize - 1) : MCPropagate(u, r)

SpecMC == InitMC /\ [][NextMC]_vars

(***************************************************************************)
(* The atmosphere sampler as EarthDynamics calls it, query after query,    *)
(* over the particles one process propagates (SpecAtm).                    *)
(***************************************************************************)
MaxQueries == 3     \* bound: calls of the sampler by one process
MaxParticles == 2   \* bound: particles the process propagates

PolarRadius == 10   \* 6356.75231e3 m, in units of the query heights

\* geodetic heights of the queried positions
QueryHeights == 0 .. 4

\* WindData['# Height'] of the sounding, and WindData[2,:,:,:] of the grid
SoundingHeights == {1, 2, 3}
GridHeights == {1, 2, 3}

SetMax(S) == CHOOSE x \in S : \A y \in S : y <= x
SetMin(S) == CHOOSE x \in S : \A y \in S : x <= y

\* kinds of WindData each program can hold when it propagates
WindKinds(v) == IF v = "main" THEN {"sounding", "grid"} ELSE {"sounding", "grid", "none"}

\* the height component of ECEF2LLH applied to a (lat, lon, h) triple as if
\* it were a Cartesian position in metres: a point h metres from the
\* Earth's centre, so a height of about h minus the polar radius
SecondLLH(h) == h - PolarRadius

\* AtmosphericModel(WindData, Pos_ECI, t_jd) for a position of geodetic
\* height h; `has` is len(WindData) > 0. The sample names the height it was
\* taken at and where its values come from.
AtmosphericModel(has, h) ==
    IF has
    THEN LET h2 == SecondLLH(h)
         IN  [h |-> h2,
              src |-> IF h2 > SetMax(SoundingHeights) THEN "top"
                      ELSE IF h2 >= SetMin(SoundingHeights) THEN "interp"
                      ELSE "bottom"]
    ELSE [h |-> h, src |-> "reference"]

\* interplevel(..., desiredlev = hei, missing = np.nan) has no value at a
\* height outside the model levels, and the density is then nan
InterpNaN(h) == h < SetMin(GridHeights) \/ h > SetMax(GridHeights)

\* which sampler EarthDynamics calls for a position of geodetic height h
Sampler(v, wind, h) ==
    IF v = "main"
    THEN IF wind = "sounding"
         THEN (IF h > SetMax(SoundingHeights) THEN "model_empty" ELSE "model_wind")
         ELSE (IF h > SetMax(GridHeights) THEN "model_empty" ELSE "wrf3d")
    ELSE IF wind = "grid" THEN "wrf3d"
         ELSE IF wind = "sounding" THEN "model_wind" ELSE "model_empty"

AtmInit ==
    /\ avariant \in Variants
    /\ awind \in WindKinds(avariant)
    /\ apc = "run"
    /\ apart = 1
    /\ afresh = TRUE
    /\ ahist = <<>>
    /\ aans = <<>>

\* one call of EarthDynamics: the sampler is chosen, answers, and appends
\* its answer to WRF_history; WRF3D takes WRF_history[-1] on a nan density
AtmQuery ==
    /\ apc = "run"
    /\ Len(ahist) < MaxQueries
    /\ \E h \in QueryHeights :
        LET which == Sampler(avariant, awind, h)
            nan == which = "wrf3d" /\ InterpNaN(h)
            own == IF which = "wrf3d" THEN [h |-> h, src |-> "grid"]
                   ELSE AtmosphericModel(which = "model_wind", h)
        IN  IF nan /\ ahist = <<>>
            THEN /\ apc' = "raised"
                 /\ aans' = [q |-> h, h |-> h, src |-> "IndexError", from |-> apart,
                             fellback |-> TRUE]
                 /\ ahist' = ahist
            ELSE LET smp == IF nan
                            THEN [h |-> ahist[Len(ahist)].h, src |-> ahist[Len(ahist)].src,
                                  from |-> ahist[Len(ahist)].from]
                            ELSE [h |-> own.h, src |-> own.src, from |-> apart]
                 IN  /\ apc' = apc
                     /\ aans' = [q |-> h, h |-> smp.h, src |-> smp.src, from |-> smp.from,
                                 fellback |-> nan]
                     /\ ahist' = Append(ahist, [h |-> smp.h, src |-> smp.src,
                                                from |-> smp.from, by |-> apart])
    /\ afresh' = FALSE
    /\ UNCHANGED <<avariant, awind, apart>>
    /\ UNCHANGED <<runVars, propVars, mcVars, iniVars, callVars>>

\* PropagateMultiple goes on to the next particle: Propagate is called
\* again in the same process, and nothing touches WRF_history
AtmNextParticle ==
    /\ apc = "run"
    /\ ~afresh
    /\ apart < MaxParticles
    /\ apart' = apart + 1
    /\ afresh' = TRUE
    /\ UNCHANGED <<avariant, awind, apc, ahist, aans>>
    /\ UNCHANGED <<runVars, propVars, mcVars, iniVars, callVars>>

InitAtm == RunIdle /\ PropIdle /\ MCIdle /\ AtmInit /\ IniIdle /\ CallIdle

NextAtm ==
    \/ AtmQuery
    \/ AtmNextParticle

SpecAtm == InitAtm /\ [][NextAtm]_vars

(***************************************************************************)
(* InitialiseParams of both programs and Initialise of the main program,   *)
(* each applied to drawn inputs (SpecIni).                                 *)
(***************************************************************************)
Densities == {1000, 1500, 2000, 2500, 3500, 5000, 6000}
DragFactors == {1, 2}
VelTypes == {"eks", "grits", "raw", "other"}

\* what the table holds: the radiant metadata, the speed column of the
\* velocity model, the DX_DT_geo.. columns, the X_geo.. columns, and a
\* second row
Tables == [meta : BOOLEAN, vcol : BOOLEAN, rawvel : BOOLEAN, pos : BOOLEAN, rows2 : BOOLEAN]

\* c_ml[mask] = sigma * cd_hyp, in the order of the four assignments of the
\* main program; sigma in 1e-9
MaskedSigma(rho) ==
    LET c0 == 0
        c1 == IF rho > 5000 THEN 70 ELSE c0
        c2 == IF rho > 2500 /\ rho <= 5000 THEN 14 ELSE c1
        c3 == IF rho > 1500 /\ rho <= 2500 THEN 42 ELSE c2
        c4 == IF rho <= 1500 THEN 100 ELSE c3
    IN  c4

\* InitialiseParams(rho, shape)['c_ml'] of program v
InitialiseParams(v, rho, cd) ==
    IF v = "main" THEN MaskedSigma(rho) * cd ELSE 42 * cd

\* vel = LastTimeStep[v_col] after the radiant was found: KeyError without
\* the column
SpeedColumn(tab) == IF tab.vcol THEN "ok" ELSE "KeyError"

\* the first `except KeyError` of Initialise: the radiant from the last two
\* positions, then the speed column again, outside any try
RadiantFromRows(tab) == IF ~tab.rows2 THEN "IndexError" ELSE SpeedColumn(tab)

\* Initialise(TriData, velType, mass, rho, shape): "ok", the exit status of
\* an exit call, or the exception that leaves the function
Initialise(velType, tab) ==
    IF velType \notin {"eks", "grits", "raw"} THEN "exit1"
    ELSE IF ~tab.pos THEN "KeyError"
    ELSE IF velType = "raw"
    THEN (IF tab.rawvel THEN "ok"
          ELSE IF ~tab.rows2 THEN "IndexError"
          ELSE "ok")
    ELSE IF tab.meta /\ tab.vcol THEN "ok"
    ELSE RadiantFromRows(tab)

\* the exit status of the process after Initialise ended that way: an
\* uncaught exception prints a traceback and gives status 1
ExitStatus(out) ==
    IF out = "ok" THEN "running"
    ELSE IF out = "exit2" THEN "2"
    ELSE "1"

IniInit ==
    /\ fvariant \in Variants
    /\ frho \in Densities
    /\ fcd \in DragFactors
    /\ fc_ml = -1
    /\ fvelType \in VelTypes
    /\ ftab \in Tables
    /\ fout = ""

CallInitialiseParams ==
    /\ fc_ml = -1
    /\ fc_ml' = InitialiseParams(fvariant, frho, fcd)
    /\ UNCHANGED <<fvariant, frho, fcd, fvelType, ftab, fout>>
    /\ UNCHANGED <<runVars, propVars, mcVars, atmVars, callVars>>

CallInitialise ==
    /\ fout = ""
    /\ fout' = Initialise(fvelType, ftab)
    /\ UNCHANGED <<fvariant, frho, fcd, fc_ml, fvelType, ftab>>
    /\ UNCHANGED <<runVars, propVars, mcVars, atmVars, callVars>>

InitIni == RunIdle /\ PropIdle /\ MCIdle /\ AtmIdle /\ IniInit /\ CallIdle

NextIni ==
    \/ CallInitialiseParams
    \/ CallInitialise

SpecIni == InitIni /\ [][NextIni]_vars

(***************************************************************************)
(* Functions of the programs applied to drawn arguments (SpecCall):        *)
(* WriteToFile, the wind randomisation of Propagate over the particles of  *)
(* one worker, the accelerations of EarthDynamics (lift variant), and      *)
(* WindDataExtraction and the horizontal neighbourhood of WRF3D.           *)
(***************************************************************************)
\* len(M) of the table handed to the writer
TableLengths == {1, 16, 99, 100, 101, 999, 1000, 1001}

\* the input file types the main program loads; the lift variant loads .cfg
FileTypes(v) == IF v = "main" THEN {"ecsv", "fits", "cfg"} ELSE {"cfg"}

\* DATA is one trajectory (first row at the start height, high: above
\* 10e3 m or not) or an ensemble of impact rows (first row near the ground)
WriteArgs ==
    { a \in [fn : {"WriteToFile"}, v : Variants, fileType : {"ecsv", "fits", "cfg"},
             traj : BOOLEAN, high : BOOLEAN, len : TableLengths, mc : BOOLEAN] :
        /\ a.fileType \in FileTypes(a.v)
        /\ (~a.traj => ~a.high)
        /\ (a.mc => ~a.traj) }

\* elif len(M) < 1000 (lift variant: < 100)
SmallEnsemble(v, len) == len < (IF v = "main" THEN 1000 ELSE 100)

\* the branch of WriteToFile that names the file
NameBranch(a) ==
    IF a.high THEN "single"
    ELSE IF SmallEnsemble(a.v, a.len) THEN "small"
    ELSE "large"

\* ofile1 is assigned in the branch taken
NameDefined(a) ==
    IF NameBranch(a) \in {"single", "small"}
    THEN a.fileType \in {"ecsv", "cfg"}
    ELSE (a.fileType = "ecsv" /\ a.mc) \/ a.fileType \in {"fits", "cfg"}

\* WriteToFile: the extension of the file written, or the NameError of
\* the unassigned ofile1
WriteToFile(a) ==
    IF ~NameDefined(a) THEN [raised |-> "NameError", ext |-> ""]
    ELSE [raised |-> "", ext |-> IF NameBranch(a) = "large" THEN ".fits" ELSE ".ecsv"]

\* ---- Propagate(state0, args): newWindData (main program)
\* args of Propagate: the kind of WindData, mc, windspd_err, winddir_err
WindArgs ==
    [fn : {"Propagate"}, wind : {"sounding", "grid"}, mc : BOOLEAN,
     windspd_err : {1}, winddir_err : {0, 1}]

\* the dataset the root loaded: the rows of the sounding Table, or the
\* cells of the grid with WindData[2] (height), [3] and [4] (the horizontal
\* components, under the names Propagate's comments give them), [5] (up)
\* and the temperature
BaseWind(kind) ==
    IF kind = "sounding"
    THEN [l \in 1 .. WindLayers |->
            [Height |-> 10 * l, TempK |-> 250 - l, Press |-> 900 - l, RHum |-> 40 + l,
             Wind |-> 5 + l, WDir |-> IF l = 1 THEN 0 ELSE 359]]
    ELSE [c \in 1 .. WindLayers |->
            [Height |-> 10 * c, TempK |-> 250 - c, North |-> 3 + c, East |-> 0 - c, Up |-> c]]

\* np.random.uniform(low, high, size): one value per layer
Uniform(low, high) == [1 .. WindLayers -> low .. high]

\* newWindData after the randomisation, for the draws d1 and d2 of the two
\* calls of np.random.uniform
Randomised(kind, WindData, copy, d1, d2) ==
    IF kind = "sounding"
    THEN [l \in 1 .. WindLayers |->
            [copy[l] EXCEPT !.Wind = WindData[l].Wind + d1[l],
                            !.WDir = (WindData[l].WDir + d2[l]) % 360]]
    ELSE [c \in 1 .. WindLayers |->
            [copy[c] EXCEPT !.North = WindData[c].North + d1[c],
                            !.East = WindData[c].East + d2[c]]]

\* the caller's WindData if newWindData were the same object
WindDataAliased(WindData, newWindData) == newWindData

\* the caller's WindData after the assignments into newWindData, which
\* copy.deepcopy made a separate object
WindDataAfter(WindData, newWindData) == WindData

\* ---- EarthDynamics(t, X, WindData, t0, cl) of the lift variant
Vec3 == {<<0, 0, -1>>, <<0, 0, -2>>, <<0, 0, 0>>, <<1, 0, -1>>, <<0, 2, -1>>, <<-1, 0, 0>>}

\* a_grav, v_rel, cl (in hundredths) and q, the positive factor
\* A * rho_a * v / (2 * M**(1/3) * rho**(2/3)) of the drag, taken for the
\* lift's A * rho_a * v**2 / (...) as well
DynArgs ==
    [fn : {"EarthDynamics"}, a_grav : {<<0, 0, -1>>, <<-1, 0, 0>>}, v_rel : Vec3,
     cl : {-1, 0, 1}, q : {1, 2}]

\* np.cross(a, b)
Cross(a, b) ==
    <<a[2] * b[3] - a[3] * b[2], a[3] * b[1] - a[1] * b[3], a[1] * b[2] - a[2] * b[1]>>

Scaled(k, a) == <<k * a[1], k * a[2], k * a[3]>>

Plus(a, b) == <<a[1] + b[1], a[2] + b[2], a[3] + b[3]>>

\* n_lift3 = np.cross(a_grav3, v_rel3) / norm(np.cross(a_grav3, v_rel3)):
\* nan in every component when the cross product is zero; otherwise the
\* unit vector along dir
NLift(a_grav, v_rel) ==
    LET c == Cross(a_grav, v_rel)
    IN  [nan |-> c = <<0, 0, 0>>, dir |-> c]

\* a_lift = cl * A * rho_a * v**2 * n_lift / (...): a multiple of the unit
\* vector; nan times any cl is nan
ALift(a) ==
    LET n == NLift(a.a_grav, a.v_rel)
    IN  [nan |-> n.nan, len |-> a.cl * a.q, dir |-> n.dir]

\* a_drag = -cd * q * v_rel (cd taken as 1)
ADrag(a) == Scaled(-a.q, a.v_rel)

\* a_tot = a_grav + a_drag + a_lift, the lift along dir
ATot(a) ==
    LET l == ALift(a)
    IN  [nan |-> l.nan, v |-> Plus(Plus(a.a_grav, ADrag(a)), Scaled(l.len, l.dir))]

EarthDynamics(a) == [a_lift |-> ALift(a), a_tot |-> ATot(a)]

\* ---- WindDataExtraction(WindFileName, t0)
\* times_jd of the forecast file, increasing, and the start time t0
ExtractArgs ==
    [fn : {"WindDataExtraction"}, times_jd : {<<2, 4>>, <<2, 4, 7>>, <<1, 4, 6, 7>>},
     t0 : 0 .. 9]

\* np.searchsorted(a, v): the number of entries below v (0-based index)
SearchSorted(a, v) == Cardinality({i \in 1 .. Len(a) : a[i] < v})

\* a[i] with Python's 0-based index: negative counts from the end, and an
\* index of len(a) or more raises IndexError (ok = FALSE)
PyIndex(a, i) ==
    IF i >= Len(a) \/ i < -Len(a) THEN [ok |-> FALSE, at |-> 0, val |-> 0]
    ELSE LET k == IF i < 0 THEN Len(a) + i ELSE i
         IN  [ok |-> TRUE, at |-> k, val |-> a[k + 1]]

\* WindDataExtraction up to the return: the two snapshots read, the
\* interp_factor num / den with den made positive, and whether the
\* warning was printed; IndexError from times_jd[idx_after]
WindDataExtraction(a) ==
    LET idx_after == SearchSorted(a.times_jd, a.t0)
        idx_before == idx_after - 1
        after == PyIndex(a.times_jd, idx_after)
        before == PyIndex(a.times_jd, idx_before)
        f == Rat(a.t0 - before.val, after.val - before.val)
    IN  IF ~after.ok \/ ~before.ok
        THEN [raised |-> "IndexError", before |-> 0, after |-> 0,
              interp_factor |-> Rat(0, 1), warned |-> FALSE]
        ELSE [raised |-> "", before |-> before.at, after |-> after.at,
              interp_factor |-> f,
              warned |-> f.n < 0 \/ f.n > f.d]

\* ---- WRF3D(WindArray, Pos_LLH): the cells around the nearest one
\* the grid's shape [.., .., nrow, ncol] and the cell nearest to the
\* query position, where ang_dist2 is least
GridArgs ==
    { a \in [fn : {"WRF3D"}, nrow : 2 .. 4, ncol : 2 .. 4, row : 0 .. 3, col : 0 .. 3] :
        a.row < a.nrow /\ a.col < a.ncol }

\* np.argmin of the [nrow, ncol] array: the index into the flattened array
ArgMin(a) == a.row * a.ncol + a.col

\* the indices of a[start:stop] for len(a) = n: a negative bound counts
\* from the end, bounds are clipped to 0 .. n
PySlice(start, stop, n) ==
    LET Clip(i) == IF i < 0 THEN (IF n + i < 0 THEN 0 ELSE n + i)
                   ELSE (IF i > n THEN n ELSE i)
    IN  {i \in 0 .. (n - 1) : Clip(start) <= i /\ i < Clip(stop)}

\* xid, yid and the cells of [yid-1:yid+2, xid-1:xid+2]
WRF3D(a) ==
    LET min_index == ArgMin(a)
        xid == min_index % a.ncol
        yid == min_index \div a.ncol
    IN  [xid |-> xid, yid |-> yid,
         cells |-> PySlice(yid - 1, yid + 2, a.nrow) \X PySlice(xid - 1, xid + 2, a.ncol)]

CallArgs == WriteArgs \cup WindArgs \cup DynArgs \cup ExtractArgs \cup GridArgs

\* before the first call: nothing returned; the worker holds the dataset
CallStart(a) ==
    IF a.fn = "Propagate"
    THEN [calls |-> 0, WindData |-> BaseWind(a.wind), newWindData |-> <<>>]
    ELSE <<>>

CallInit ==
    /\ cargs \in CallArgs
    /\ cfn = cargs.fn
    /\ cdone = FALSE
    /\ cret = CallStart(cargs)

CallWriteToFile ==
    /\ cfn = "WriteToFile"
    /\ ~cdone
    /\ cdone' = TRUE
    /\ cret' = WriteToFile(cargs)
    /\ UNCHANGED <<cfn, cargs>>
    /\ UNCHANGED <<runVars, propVars, mcVars, atmVars, iniVars>>

CallEarthDynamics ==
    /\ cfn = "EarthDynamics"
    /\ ~cdone
    /\ cdone' = TRUE
    /\ cret' = EarthDynamics(cargs)
    /\ UNCHANGED <<cfn, cargs>>
    /\ UNCHANGED <<runVars, propVars, mcVars, atmVars, iniVars>>

CallWindDataExtraction ==
    /\ cfn = "WindDataExtraction"
    /\ ~cdone
    /\ cdone' = TRUE
    /\ cret' = WindDataExtraction(cargs)
    /\ UNCHANGED <<cfn, cargs>>
    /\ UNCHANGED <<runVars, propVars, mcVars, atmVars, iniVars>>

CallWRF3D ==
    /\ cfn = "WRF3D"
    /\ ~cdone
    /\ cdone' = TRUE
    /\ cret' = WRF3D(cargs)
    /\ UNCHANGED <<cfn, cargs>>
    /\ UNCHANGED <<runVars, propVars, mcVars, atmVars, iniVars>>

\* Propagate called for the next particle of the worker's block
CallPropagate ==
    /\ cfn = "Propagate"
    /\ cret.calls < MaxParticles
    /\ LET copy == cret.WindData
           Result(new) == [calls |-> cret.calls + 1,
                           WindData |-> WindDataAfter(cret.WindData, new),
                           newWindData |-> new]
       IN  IF cargs.mc
           THEN \E d1 \in Uniform(-cargs.windspd_err, cargs.windspd_err),
                   d2 \in Uniform(-cargs.windspd_err,
                                  IF cargs.wind = "sounding" THEN cargs.winddir_err
                                  ELSE cargs.windspd_err) :
                    cret' = Result(Randomised(cargs.wind, cret.WindData, copy, d1, d2))
           ELSE cret' = Result(copy)
    /\ cdone' = TRUE
    /\ UNCHANGED <<cfn, cargs>>
    /\ UNCHANGED <<runVars, propVars, mcVars, atmVars, iniVars>>

InitCall == RunIdle /\ PropIdle /\ MCIdle /\ AtmIdle /\ IniIdle /\ CallInit

NextCall ==
    \/ CallWriteToFile
    \/ CallPropagate
    \/ CallEarthDynamics
    \/ CallWindDataExtraction
    \/ CallWRF3D

SpecCall == InitCall /\ [][NextCall]_vars

(***************************************************************************)
(* Properties of the MPI run (Spec).                                       *)
(***************************************************************************)
\* no rank can take a step any more: each has exited, has raised, or waits
\* in a receive that nothing will answer
RunOver == ~ENABLED Next

\* ceil(N/W)
CeilDiv(N, W) == (N + W - 1) \div W

\* rank r has completed its Scatterv
Scattered(r) == pc[r] \in {"args", "propagate", "pack", "gather", "write"}

\* row k of the gathered table is sample `step` of input particle k0 and
\* carries the particle's initial mass and weight
RowIs(k, k0, step) ==
    /\ Cell(DATA, k, 14, States(variant)) = InCell(k0, 7)
    /\ Cell(DATA, k, 19, States(variant)) = InCell(k0, 11)
    /\ \A c \in (0 .. (States(variant) - 1)) \ {14, 19} :
            Cell(DATA, k, c, States(variant)) = OutCell(InCell(k0, 0), step, c)

\* C1: the block sizes sum to N, each is floor(N/W) or ceil(N/W), and the
\* scatter leaves on rank i the rows of the particles n_0+...+n_{i-1}
\* onwards, in input order, so the blocks are disjoint and cover the input.
C1_PartitionAndScatter ==
    /\ \A N \in 0 .. MaxN, W \in 1 .. MaxSize :
          /\ Sum(BlockSizes(N, W), W) = N
          /\ \A i \in 0 .. (W - 1) : BlockSizes(N, W)[i] \in {N \div W, CeilDiv(N, W)}
    /\ \A r \in Ranks :
          pc[r] \in {"check", "scatter", "args"} =>
              /\ Sum(nLoc[r], size) = Npart
              /\ \A i \in Ranks : nLoc[r][i] \in {Npart \div size, CeilDiv(Npart, size)}
    /\ \A r \in Ranks :
          (Scattered(r) /\ pc[r] = "args") =>
              /\ Rows(data0[r], States0) = nLoc[r][r]
              /\ Len(data0[r]) = nLoc[r][r] * States0
              /\ \A j \in 0 .. (nLoc[r][r] - 1), c \in 0 .. (States0 - 1) :
                    Cell(data0[r], j, c, States0) = InCell(SumTo(nLoc[r], r) + j, c)

\* C1 witness: a rank other than the root holds its block of an ensemble
\* that does not divide evenly among the ranks
C1_Witness ==
    \E r \in Ranks : r # 0 /\ pc[r] = "args" /\ Npart % size # 0 /\ Len(data0[r]) > 0

\* C2: a run with N > 1 particles ends with the gathered table on the root,
\* row k being the impact sample of input particle k.
C2_GatheredInOrder ==
    (RunOver /\ Npart > 1) =>
        /\ Rows(DATA, States(variant)) = Npart
        /\ \A k \in 0 .. (Npart - 1) : RowIs(k, k, 0)

\* C3: when a rank with an empty block has exited, the run ends with every
\* other rank finished and the root holding the rows of every block.
C3_EmptyBlockExit ==
    (RunOver /\ \E r \in Ranks : nLoc[r] # <<>> /\ nLoc[r][r] = 0 /\ pc[r] = "exited" /\ Npart > 0) =>
        /\ \A r \in Ranks : pc[r] = "exited" /\ exitcode[r] = "0"
        /\ written
        /\ Rows(DATA, States(variant)) >= Npart

\* C4: a rank that holds particles has every propagation argument bound,
\* with the root's value, when it assembles them.
C4_ConfigOnEveryWorker ==
    \A r \in Ranks :
        pc[r] = "args" =>
            /\ ArgNames(variant) \subseteq DOMAIN ns[r]
            /\ \A a \in ArgNames(variant) : ns[r][a] = ns[0][a]

C6_WitnessEnsemble == written /\ Npart > 1

\* an invocation the programs are to refuse: a -v outside the choices, a
\* tabular event file without -v, an event file that is missing or of a
\* type the program does not read, or a missing wind file
InvalidArguments ==
    \/ argv.velocityModel = "bogus"
    \/ argv.eventFile = "missing"
    \/ argv.eventFile = "ecsv" /\ (variant = "lift" \/ argv.velocityModel = "none")
    \/ argv.windFile = "missing"

RootEnded == pc[0] \in {"exited", "crashed"}

\* C18: in both programs a run with an invalid argument or a missing input
\* file ends with exit code 1.
C18_InvalidArgumentsExit1 ==
    (RootEnded /\ InvalidArguments) => exitcode[0] = "1"

\* C20: a run of the main program with valid arguments and both files in
\* place distributes the configuration to every worker, writes the output
\* and ends with exit code 0.
C20_ValidRunCompletes ==
    (variant = "main" /\ RootEnded /\ ~InvalidArguments) =>
        /\ \A r \in Ranks \ {0} : pc[r] # "start" \/ inbox[r] # <<>>
        /\ written
        /\ exitcode[0] = "0"

\* rank r ended with an exception raised while it propagated a particle
FailedInPropagate(r) ==
    /\ pc[r] = "crashed"
    /\ ArgNames(variant) \subseteq DOMAIN ns[r]
    /\ data0[r] # <<>>

\* C26: a failure while one particle is propagated does not end the
\* worker, and the run still ends with the results written.
C26_FailureAbortsOneParticle ==
    /\ \A r \in Ranks : ~FailedInPropagate(r)
    /\ (RunOver /\ \E r \in Ranks : FailedInPropagate(r)) => written

\* the root ended before the loop of comm.send
RootEndedEarly == RootEnded /\ "states0" \notin DOMAIN ns[0]

\* C30: when the root ends before it sent the configuration, no other
\* worker is left waiting in its receive: every one of them ends too.
C30_WorkersEndWithRoot ==
    (RunOver /\ RootEndedEarly) =>
        \A r \in Ranks \ {0} : pc[r] \in {"exited", "crashed"}

(***************************************************************************)
(* Properties of Propagate (SpecProp).                                     *)
(***************************************************************************)
LastRec == pstate[Len(pstate)]

\* below the ground radius of its own latitude and longitude
Below(X) == Norm(X.pos) < REndAt(X)

Dust(X) == X.m < DustMass

\* a rational equals an integer
RatIs(q, v) == q.n = v * q.d

\* C7: the observer ends the integration exactly when the step is below
\* the ground radius at its own latitude and longitude or its mass is below
\* 1e-3 kg; every recorded step but the last is above both thresholds.
C7_ObserverDecision ==
    /\ \A i \in 1 .. (Len(pstate) - 1) : ~Below(pstate[i]) /\ ~Dust(pstate[i])
    /\ pstop = "solout" => (Below(LastRec) \/ Dust(LastRec))
    /\ ppc = "integrating" => ~(Below(LastRec) \/ Dust(LastRec))

\* the emitted mass is a number and is not negative
EmittedMassNonNegative ==
    ppc = "returned" => (pfinal.finite /\ pfinal.m.n >= 0)

\* C8: no recorded state has a mass below 1e-3 kg, and no recorded or
\* emitted mass is negative.
C8_NoDustRecorded ==
    /\ \A i \in 1 .. Len(pstate) : pstate[i].m >= DustMass
    /\ EmittedMassNonNegative

\* C9: a particle stopped by the dust test above the ground is returned
\* with the state and time of its last accepted step.
C9_DustKeepsFinalState ==
    (ppc = "returned" /\ pstop = "solout" /\ Dust(LastRec) /\ ~Below(LastRec)) =>
        /\ pfinal.finite
        /\ RatIs(pfinal.t, LastRec.t)
        /\ RatIs(pfinal.x, LastRec.pos[1])
        /\ RatIs(pfinal.y, LastRec.pos[2])
        /\ RatIs(pfinal.vel, LastRec.vel)
        /\ RatIs(pfinal.m, LastRec.m)

\* C10: the returned times increase strictly, the backtracked last one
\* included: the fraction lies in (0, 1], so the last time is later than
\* the one before it and not later than the last accepted step.
C10_TimesIncrease ==
    /\ \A i \in 1 .. (Len(pstate) - 1) : pstate[i].t < pstate[i + 1].t
    /\ (ppc = "returned" /\ Len(pstate) > 1) =>
          /\ pfinal.finite
          /\ pfrac.den # 0
          /\ 0 < Rat(pfrac.num, pfrac.den).n
          /\ Rat(pfrac.num, pfrac.den).n <= Rat(pfrac.num, pfrac.den).d
          /\ pstate[Len(pstate) - 1].t * pfinal.t.d < pfinal.t.n
          /\ pfinal.t.n <= LastRec.t * pfinal.t.d

\* the integration was ended by the ground test of the program's observer
GroundStop ==
    /\ pstop = "solout"
    /\ IF pvariant = "main" THEN Norm(LastRec.pos) < REndAt(LastRec)
                            ELSE Norm(LastRec.pos) < prend0

\* the latitude cell of the returned sample
FinalCell == IF pfinal.y.n = 0 THEN 0 ELSE 1

\* the ground radius at the returned sample's own latitude and longitude
FinalGround == EarthRadius(FinalCell) + HGnd(FinalCell)

\* C11: with the terrain looked up per position (h_ground = 'a'), a
\* particle stopped by the ground test after at least one accepted step is
\* returned on the ground surface of its own latitude and longitude: |pos|
\* is within one unit of R_earth + h_ground there.
C11_FinalOnGround ==
    (ppc = "returned" /\ GroundStop /\ Len(pstate) > 1 /\ ph_ground.auto) =>
        /\ pfinal.finite
        /\ (FinalGround - 1) * (FinalGround - 1) * pfinal.x.d * pfinal.x.d
              <= pfinal.x.n * pfinal.x.n + pfinal.y.n * pfinal.y.n
        /\ pfinal.x.n * pfinal.x.n + pfinal.y.n * pfinal.y.n
              <= (FinalGround + 1) * (FinalGround + 1) * pfinal.x.d * pfinal.x.d

\* C12: the bulk density, shape factor and mass-loss coefficient of every
\* recorded step and of the returned last sample are the particle's
\* initial ones.
C12_FrameKept ==
    /\ \A i \in 1 .. Len(pstate) :
          /\ pstate[i].rho = pX0.rho
          /\ pstate[i].A = pX0.A
          /\ pstate[i].c_ml = pX0.c_ml
    /\ ppc = "returned" =>
          /\ pfinal.finite
          /\ RatIs(pfinal.rho, pX0.rho)
          /\ RatIs(pfinal.A, pX0.A)
          /\ RatIs(pfinal.c_ml, pX0.c_ml)

\* C23: with h_ground = 'a', every lookup without data, in solout and in
\* the final lines, is answered with a ground height of 0 m and a warning.
C23_VoidGivesZeroAndWarning ==
    (pvariant = "main" /\ ph_ground.auto) =>
        /\ Len(plog) = Len(pstate) + (IF ppc = "returned" THEN 1 ELSE 0)
        /\ \A i \in 1 .. Len(plog) :
            /\ plog[i].at = (IF i <= Len(pstate) THEN "solout" ELSE "final")
            /\ plog[i].nodata => (plog[i].h_gnd = 0 /\ plog[i].warned)
            /\ ~plog[i].nodata => ~plog[i].warned
        /\ \A i \in 1 .. Len(pstate) :
            plog[i].nodata = (psrtm[LatOf(pstate[i].pos) + 1] = Void)

\* C25: a trajectory is returned only after the terminator fired on its
\* last recorded step: below the ground radius, or mass below 1e-3 kg.
C25_EndsByTerminator ==
    ppc = "returned" =>
        /\ pstop = "solout"
        /\ Solout(pstate[Len(pstate)], prend0) = -1

\* a run that met a void in solout and again in the final lines
C23_Witness ==
    /\ pvariant = "main" /\ ph_ground.auto /\ ppc = "returned"
    /\ Len(pstate) > 1
    /\ plog[Len(plog)].nodata
    /\ \E i \in 1 .. Len(pstate) : plog[i].nodata /\ ~(pstate[i].m < DustMass)

(***************************************************************************)
(* Properties of the atmosphere sampler (SpecAtm).                         *)
(***************************************************************************)
Answered == apc = "run" /\ aans # <<>>

\* C13: a query above the top of a supplied sounding is answered from the
\* reference model, not from a layer of the sounding.
C13_ReferenceAboveTop ==
    (Answered /\ awind = "sounding" /\ aans.q > SetMax(SoundingHeights)) =>
        aans.src = "reference"

\* C14: a query that reaches the 1-D sampler with a sounding is answered
\* at the geodetic height of the queried position, and by interpolation
\* when that height lies within the sounding.
C14_SamplerHeight ==
    (Answered /\ awind = "sounding" /\ aans.src # "reference") =>
        /\ aans.h = aans.q
        /\ (aans.q >= SetMin(SoundingHeights) /\ aans.q <= SetMax(SoundingHeights))
              => aans.src = "interp"

\* C15: the history holds entries of the current particle only (none when
\* its propagation starts), and a fallback returns a sample of the
\* current particle.
C15_HistoryPerPropagation ==
    /\ afresh => ahist = <<>>
    /\ \A i \in 1 .. Len(ahist) : ahist[i].by = apart
    /\ (Answered /\ aans.fellback) => aans.from = apart

\* C16: a nan density never ends the process, on the first query either;
\* the answer is then the most recent sample of the history.
C16_FallbackAlwaysAnswers ==
    /\ apc # "raised"
    /\ (Answered /\ aans.fellback) =>
          /\ Len(ahist) >= 2
          /\ aans.h = ahist[Len(ahist) - 1].h
          /\ aans.src = ahist[Len(ahist) - 1].src

(***************************************************************************)
(* Properties of the initialisation functions (SpecIni).                   *)
(***************************************************************************)
\* the bands of sigma, in 1e-9: one for each density
BandSigma(rho) ==
    IF rho > 5000 THEN 70
    ELSE IF rho > 2500 THEN 14
    ELSE IF rho > 1500 THEN 42
    ELSE 100

\* C17: in both programs the mass-loss coefficient is the sigma of the
\* density's band times Cd_hyp.
C17_SigmaBands ==
    fc_ml # -1 => fc_ml = BandSigma(frho) * fcd

\* C19: a table without the speed column of the chosen velocity model, or
\* without a position column, ends the run with exit code 2, with or
\* without the radiant metadata.
C19_MalformedTableExit2 ==
    (fout # "" /\ fvelType \in {"eks", "grits", "raw"}
        /\ (~ftab.pos \/ (fvelType # "raw" /\ ~ftab.vcol))) =>
            ExitStatus(fout) = "2"

(***************************************************************************)
(* Properties of the functions called on their own (SpecCall).             *)
(***************************************************************************)
Returned(fn) == cfn = fn /\ cdone

\* C21: the writer names the output for every input file type, and writes
\* .ecsv for a trajectory and for an ensemble of at most 1000 rows, .fits
\* for a larger ensemble.
C21_OutputFormat ==
    Returned("WriteToFile") =>
        /\ cret.raised = ""
        /\ cret.ext = (IF cargs.traj \/ cargs.len <= 1000 THEN ".ecsv" ELSE ".fits")

\* C24: with a lift coefficient not greater than 0 the lift acceleration
\* is zero and the total acceleration is gravity plus drag, also where
\* the relative velocity is parallel to gravity.
C24_NoLiftWithoutCoefficient ==
    (Returned("EarthDynamics") /\ cargs.cl <= 0) =>
        /\ ~cret.a_lift.nan
        /\ cret.a_lift.len = 0
        /\ ~cret.a_tot.nan
        /\ cret.a_tot.v = Plus(cargs.a_grav, ADrag(cargs))

\* t0 lies outside the times of the forecast file
OutsideForecast(a) == a.t0 < a.times_jd[1] \/ a.t0 > a.times_jd[Len(a.times_jd)]

\* C27: the extraction always returns a blend of two snapshots; for a
\* start time before the first or after the last sample it warns, and for
\* one inside the range it blends the snapshots around t0 with a factor
\* in [0, 1] and does not warn.
C27_ExtractionOutsideRange ==
    Returned("WindDataExtraction") =>
        LET f == cret.interp_factor
            tb == cargs.times_jd[cret.before + 1]
            ta == cargs.times_jd[cret.after + 1]
        IN  /\ cret.raised = ""
            /\ f.d > 0
            /\ (f.d - f.n) * tb + f.n * ta = f.d * cargs.t0
            /\ IF OutsideForecast(cargs)
               THEN cret.warned
               ELSE /\ ~cret.warned
                    /\ 0 <= f.n /\ f.n <= f.d
                    /\ (f.n # f.d) => cret.after = cret.before + 1

\* cell c is the cell (row, col) or one of its eight neighbours
Adjacent(c, row, col) ==
    /\ c[1] - row \in {-1, 0, 1}
    /\ c[2] - col \in {-1, 0, 1}

\* C28: the indices recovered from the flat argmin are the nearest cell's
\* column and row, and the neighbourhood taken around it is not empty and
\* holds only that cell and cells next to it, on the grid's edge as well.
C28_NeighbourhoodOnGrid ==
    Returned("WRF3D") =>
        /\ cret.xid = cargs.col
        /\ cret.yid = cargs.row
        /\ cret.cells # {}
        /\ \A c \in cret.cells : Adjacent(c, cargs.row, cargs.col)
        /\ (0 < cargs.row /\ cargs.row < cargs.nrow - 1
              /\ 0 < cargs.col /\ cargs.col < cargs.ncol - 1) =>
                Cardinality(cret.cells) = 9

\* a - b as an angle in degrees, in -180 .. 179
AngleDiff(a, b) == ((a - b + 180) % 360) - 180

Within(x, e) == -e <= x /\ x <= e

\* C22: a Monte-Carlo realisation offsets every layer's speed by at most
\* wind_err and its direction by at most dir_err; every cell's north and
\* east component by at most wind_err.
C22_OffsetsInRange ==
    (Returned("Propagate") /\ cargs.mc) =>
        \A l \in 1 .. WindLayers :
            LET new == cret.newWindData[l]
                base == BaseWind(cargs.wind)[l]
            IN  IF cargs.wind = "sounding"
                THEN /\ Within(new.Wind - base.Wind, cargs.windspd_err)
                     /\ Within(AngleDiff(new.WDir, base.WDir), cargs.winddir_err)
                ELSE /\ Within(new.North - base.North, cargs.windspd_err)
                     /\ Within(new.East - base.East, cargs.windspd_err)

\* C29: the worker's dataset stays the one that was loaded, and what a
\* particle is propagated with differs from it by the offsets of one
\* realisation in the wind alone.
C29_BaseWindKept ==
    Returned("Propagate") =>
        /\ cret.WindData = BaseWind(cargs.wind)
        /\ \A l \in 1 .. WindLayers :
            LET new == cret.newWindData[l]
                base == BaseWind(cargs.wind)[l]
            IN  IF cargs.wind = "sounding"
                THEN /\ [new EXCEPT !.Wind = 0, !.WDir = 0] = [base EXCEPT !.Wind = 0, !.WDir = 0]
                     /\ Within(new.Wind - base.Wind, cargs.windspd_err)
                ELSE /\ [new EXCEPT !.North = 0, !.East = 0] = [base EXCEPT !.North = 0, !.East = 0]
                     /\ Within(new.North - base.North, cargs.windspd_err)
                     /\ Within(new.East - base.East, cargs.windspd_err)

\* a second particle was propagated with offsets after a first one was
C29_Witness ==
    /\ Returned("Propagate")
    /\ cargs.mc
    /\ cret.calls = 2
    /\ cret.newWindData # BaseWind(cargs.wind)

(***************************************************************************)
(* Property of the random wind (SpecMC).                                   *)
(***************************************************************************)
\* every process of both runs started its generator from the same state
FixedSeed == \A u \in Runs : \A r \in 0 .. (mcW[u] - 1) : mcSeed[u][r] = 1

\* C5: with a fixed seed a particle's wind is offset by the same draws
\* whatever the worker count, so its impact sample is the same.
C5_SameDrawsForAnyWorkerCount ==
    FixedSeed =>
        \A k \in 0 .. (mcN - 1) :
            (mcPert[1][k].done /\ mcPert[2][k].done) => mcPert[1][k] = mcPert[2][k]

====
